---- MODULE Spec2Model ----
(***************************************************************************)
(* A model of SimPEG's time-domain EM simulation                            *)
(* (SimPEG/electromagnetics/time_domain/simulation.py): the backward-Euler  *)
(* time stepper fields(m), the sensitivities Jvec and Jtvec, the            *)
(* factorization caches Ainv / ATinv / _Adcinv and their lifetime.          *)
(*                                                                         *)
(* Time-step lengths, dt_threshold and models are small integers (a length  *)
(* is a multiple of an arbitrary unit).  A factorization is a record that   *)
(* remembers which operator it factors (kind, the model and the step        *)
(* length it was assembled with).  One call of the API is one action; the   *)
(* call runs on a context record S that threads the simulation's mutable    *)
(* attributes, the event log of the call and the pending exception.         *)
(*                                                                         *)
(* The values that Jvec and Jtvec return are computed, in exact fractions,  *)
(* for the electric-field formulation on a mesh with one edge (SpecNum);    *)
(* each solve applies the inverse of the operator that the factorization    *)
(* it used was assembled with.                                              *)
(***************************************************************************)
EXTENDS Integers, Sequences, FiniteSets, TLC

\* ------------------------------------------------------------------ bounds
MaxN == 2          \* a time mesh has 1..MaxN steps
MaxFail == 2       \* the solver may fail at its 1st..MaxFail-th call of an operation

StepLengths == {1, 3}      \* the step lengths, in units
Thresholds == {1, 2}       \* the values of dt_threshold, in units

Models == {1, 2}
Surveys == {<<"inductive">>, <<"inductive", "galvanic">>}
FieldTypes == {"b", "e", "h", "j"}

RECURSIVE SeqsUpTo(_, _)
SeqsUpTo(S, n) ==
    IF n = 0 THEN {<<>>}
    ELSE LET shorter == SeqsUpTo(S, n - 1)
         IN  shorter \cup {Append(s, x) : s \in {t \in shorter : Len(t) = n - 1}, x \in S}

TimeMeshes == {s \in SeqsUpTo(StepLengths, MaxN) : Len(s) >= 1}

\* ------------------------------------------------------------------ state
VARIABLES
    fieldType,     \* _fieldType of the simulation class: "b", "e", "h" or "j"
    survey,        \* the source types of the survey's source_list, in order
    forward_only,  \* self._forward_only
    dt_threshold,  \* self._dt_threshold
    time_steps,    \* self.time_steps
    model,         \* self.model (0: no model set yet)
    Ainv,          \* self.Ainv: [has, d] (has = hasattr(self, "Ainv"))
    ATinv,         \* self.ATinv
    Adcinv,        \* self._Adcinv (NoFac: None)
    last,          \* the last operation: its arguments, outcome and event log
    num,           \* the receiver's time channel and the values Jvec and Jtvec returned
    rcv            \* a receiver: storeProjections, orientation, _Ps and its last getP

vars == <<fieldType, survey, forward_only, dt_threshold, time_steps, model,
          Ainv, ATinv, Adcinv, last, num, rcv>>

\* ------------------------------------------------------------ small helpers
Abs(x) == IF x < 0 THEN -x ELSE x

Min(S) == CHOOSE x \in S : \A y \in S : x <= y

Range(s) == {s[i] : i \in 1..Len(s)}

\* np.round(x / y) for x >= 0, y > 0: round half to even
RoundDiv(x, y) ==
    LET q == x \div y
        r == x % y
    IN  IF 2 * r < y THEN q
        ELSE IF 2 * r > y THEN q + 1
        ELSE IF q % 2 = 0 THEN q ELSE q + 1

\* self.dt_threshold * np.round(self.time_steps / self.dt_threshold)
RoundSteps(ts, th) == [i \in 1..Len(ts) |-> th * RoundDiv(ts[i], th)]

\* np.unique(self.time_steps): the distinct lengths (taken in ascending order)
Unique(ts) == Range(ts)

\* self.time_steps.tolist().index(dt), 0-based
IndexOf(ts, dt) == Min({i \in 1..Len(ts) : ts[i] = dt}) - 1

\* ----------------------------------------------------------- factorizations
\* None
NoFac == [id |-> <<"none", 0>>, kind |-> "none", m |-> 0, dt |-> 0, cleaned |-> FALSE]

IsNone(f) == f.kind = "none"

\* an attribute that was never set / a dict
NoCache == [has |-> FALSE, d |-> <<>>]

\* dict.fromkeys(keys, None)
FromKeys(keys) == [has |-> TRUE, d |-> [k \in keys |-> NoFac]]

\* ------------------------------------------------------------------ context
\* a value handed to a setter: its Python type and, for a bool or a number,
\* its value (a dt_threshold in units of 1e-16)
Value(t, v) == [t |-> t, v |-> v]

\* the arguments of a configuration call; NoArg: none
NoArg == [fo |-> Value("none", 0), dt |-> Value("none", 0), mu |-> FALSE]

\* the state a call runs on
Ctx(fail) ==
    [model |-> model, time_steps |-> time_steps,
     Ainv |-> Ainv, ATinv |-> ATinv, Adcinv |-> Adcinv,
     log |-> <<>>, nnew |-> 0, nsolver |-> 0, fail |-> fail,
     cleaned |-> {}, ret |-> NoFac, err |-> "ok", f |-> <<>>, bs |-> <<>>,
     df |-> {}, gal |-> <<>>, arg |-> NoArg]

Ok(S) == S.err = "ok"

Raise(S, e) == [S EXCEPT !.err = e]

IsDead(S, f) == f.cleaned \/ f.id \in S.cleaned

\* one entry of the event log
Ev(S, ev, f, k) ==
    [ev |-> ev, id |-> f.id, kind |-> f.kind, m |-> f.m, dt |-> f.dt, k |-> k,
     dead |-> IsDead(S, f), cm |-> S.model, fo |-> forward_only,
     cdt |-> IF k >= 0 /\ k < Len(S.time_steps) THEN S.time_steps[k + 1] ELSE 0]

Note(S, ev, k) == [S EXCEPT !.log = Append(@, Ev(S, ev, NoFac, k))]

\* self.solver(A, **self.solver_opts) for the operator named by kind, assembled
\* at time index k; the new factorization is left in ret
Solver(S, kind, k) ==
    IF ~Ok(S) THEN S
    ELSE IF S.nsolver + 1 = S.fail
    THEN [S EXCEPT !.nsolver = @ + 1, !.err = "SolverError"]
    ELSE LET f == [id |-> <<"new", S.nnew + 1>>, kind |-> kind, m |-> S.model,
                   dt |-> IF kind = "DC" THEN 0 ELSE S.time_steps[k + 1],
                   cleaned |-> FALSE]
         IN  [S EXCEPT !.nsolver = @ + 1, !.nnew = @ + 1, !.ret = f,
                       !.log = Append(@, Ev(S, "new", f, k))]

\* f.clean(); on None an AttributeError
Clean(S, f) ==
    IF ~Ok(S) THEN S
    ELSE IF IsNone(f) THEN Raise(S, "AttributeError")
    ELSE [S EXCEPT !.log = Append(@, Ev(S, "clean", f, -1)),
                   !.cleaned = @ \cup {f.id}]

\* f * rhs at time index k; on None a TypeError
Solve(S, f, k) ==
    IF ~Ok(S) THEN S
    ELSE IF IsNone(f) THEN Raise(S, "TypeError")
    ELSE [S EXCEPT !.log = Append(@, Ev(S, "solve", f, k))]

\* ------------------------------------------------------------ model setter
\* a variant in which a model update clears nothing
clean_on_model_update_base == {}

\* BaseTDEMSimulation.clean_on_model_update: the factors cleared when the model
\* is updated
clean_on_model_update == {"_Adcinv"}

\* self.model = m: a changed model clears every factor of clean_on_model_update
SetModel(S, m) ==
    IF ~Ok(S) \/ m = S.model THEN S
    ELSE LET S1 == Note([S EXCEPT !.model = m], "model", -1)
             S2 == IF "_Adcinv" \in clean_on_model_update /\ ~IsNone(S.Adcinv)
                   THEN [Clean(S1, S.Adcinv) EXCEPT !.Adcinv = NoFac]
                   ELSE S1
         IN  S2

\* ------------------------------------------------------------------- Adcinv
\* a variant in which every class defines getAdc
HasGetAdcAll(ft) == TRUE

\* hasattr(self, "getAdc"): the classes that define getAdc
HasGetAdc(ft) == ft \in {"e", "h", "j"}

\* a variant of the property that factors the DC operator at every access
AdcinvRebuild(S) ==
    IF ~Ok(S) THEN S
    ELSE LET S0 == [S EXCEPT !.log = Append(@, Ev(S, "Adcinv", S.Adcinv, -1))]
         IN  IF ~HasGetAdc(fieldType) THEN Raise(S0, "NotImplementedError")
             ELSE LET S1 == Solver(S0, "DC", -1)
                  IN  IF Ok(S1) THEN [S1 EXCEPT !.Adcinv = S1.ret] ELSE S1

\* the property BaseTDEMSimulation.Adcinv; the factorization is left in ret.
\* The access is logged with the factor that self._Adcinv holds (none: a miss)
AdcinvProp(S) ==
    IF ~Ok(S) THEN S
    ELSE LET S0 == [S EXCEPT !.log = Append(@, Ev(S, "Adcinv", S.Adcinv, -1))]
         IN  IF ~HasGetAdc(fieldType) THEN Raise(S0, "NotImplementedError")
             ELSE IF IsNone(S0.Adcinv)
             THEN LET S1 == Solver(S0, "DC", -1)
                  IN  IF Ok(S1) THEN [S1 EXCEPT !.Adcinv = S1.ret] ELSE S1
             ELSE [S0 EXCEPT !.ret = S0.Adcinv]

\* self.survey: the property raises when no survey is attached
NoSurvey == <<"none">>

Survey(S) == IF survey = NoSurvey THEN Raise(S, "AttributeError") ELSE S

\* a source's initial field (and its derivative): a galvanic source solves the
\* steady-state problem with simulation.Adcinv, an inductive one does not
SrcInitial(S, i) ==
    IF ~Ok(S) \/ survey[i] # "galvanic" THEN S
    ELSE LET S1 == AdcinvProp(S) IN Solve(S1, S1.ret, -1)

RECURSIVE ForSources(_, _)
\* getInitialFields / getInitialFieldsDeriv: every source of the survey in turn
ForSources(S, i) ==
    IF ~Ok(S) \/ i > Len(survey) THEN S
    ELSE ForSources(SrcInitial(S, i), i + 1)

getInitialFields(S) == ForSources(Survey(S), 1)

\* ---------------------------------------------------------------- fields(m)
\* f = self.fieldsPair(self): a fields object with no time index written
fieldsPair(S) == IF ~Ok(S) THEN S ELSE [S EXCEPT !.f = <<>>]

\* what an assembly of a right-hand side read: the time indices of the source
\* terms and the indices of the time-step lengths
NoReads == [src |-> {}, dt |-> {}]

\* self.times[i], a list of n + 1 nodes: a negative index counts from the end
TimesIndex(i, n) == IF i < 0 THEN i + n + 1 ELSE i

\* getSourceTerm(tInd): src.eval(self, self.times[tInd])
SourceTermReads(tInd, n) == {TimesIndex(tInd, n)}

\* getRHS(tInd) of the four formulations, by what it reads
getRHSReads(ft, n, tInd) ==
    IF ft \in {"b", "h"}
    THEN [src |-> SourceTermReads(tInd, n), dt |-> {}]
    ELSE IF ft = "e"
    THEN [src |-> SourceTermReads(tInd, n) \cup SourceTermReads(tInd - 1, n),
          dt |-> {tInd - 1}]
    ELSE LET t == IF tInd = n THEN tInd - 1 ELSE tInd
         IN  [src |-> SourceTermReads(t, n) \cup SourceTermReads(t - 1, n),
              dt |-> {t}]

\* a variant that stores nothing
WriteNone(S, idx, from, rhs) == S

\* f[:, self._fieldType + "Solution", idx] = ..., computed from the solutions at
\* the time indices in from and from the right-hand side rhs; at is the number
\* of events that came before
Write(S, idx, from, rhs) ==
    IF ~Ok(S) THEN S
    ELSE [S EXCEPT !.f = Append(@, [idx |-> idx, from |-> from, rhs |-> rhs,
                                    at |-> Len(S.log)])]

RECURSIVE CleanDict(_, _, _)
\* {k: v.clean() for k, v in d.items()}: the values in key order; a None value
\* raises AttributeError and leaves the ones before it cleaned
CleanDict(S, d, keys) ==
    IF ~Ok(S) \/ keys = {} THEN S
    ELSE LET k == Min(keys) IN CleanDict(Clean(S, d[k]), d, keys \ {k})

\* d[dt] = f
Put(c, dt, f) ==
    [has |-> TRUE,
     d |-> [k \in DOMAIN c.d \cup {dt} |-> IF k = dt THEN f ELSE c.d[k]]]

\* "Clean factorizations for preexisting model", else round the steps and
\* create the dict
fieldsAinv(S) ==
    IF ~Ok(S) THEN S
    ELSE IF S.Ainv.has
    THEN LET S1 == CleanDict(S, S.Ainv.d, DOMAIN S.Ainv.d)
         IN  IF Ok(S1) THEN [S1 EXCEPT !.Ainv = FromKeys(DOMAIN S.Ainv.d)] ELSE S1
    ELSE LET ts == RoundSteps(S.time_steps, dt_threshold)
         IN  [S EXCEPT !.time_steps = ts, !.Ainv = FromKeys(Unique(ts))]

\* try: clean the transpose factors; except AttributeError: a new dict
fieldsATinv(S) ==
    IF ~Ok(S) THEN S
    ELSE LET S1 == IF S.ATinv.has
                   THEN CleanDict(S, S.ATinv.d, DOMAIN S.ATinv.d)
                   ELSE Raise(S, "AttributeError")
         IN  IF Ok(S1) THEN [S1 EXCEPT !.ATinv = FromKeys(DOMAIN S.ATinv.d)]
             ELSE IF S1.err = "AttributeError"
             THEN [S1 EXCEPT !.err = "ok", !.ATinv = FromKeys(Unique(S.time_steps))]
             ELSE S1

RECURSIVE FactorAll(_, _, _)
\* for dt in np.unique(self.time_steps).tolist(): factor getAdiag(index of dt)
\* (kind "A") or its transpose (kind "AT") into the dict
FactorAll(S, kind, keys) ==
    IF ~Ok(S) \/ keys = {} THEN S
    ELSE LET dt == Min(keys)
             S1 == Solver(S, kind, IndexOf(S.time_steps, dt))
             S2 == IF ~Ok(S1) THEN S1
                   ELSE IF kind = "A" THEN [S1 EXCEPT !.Ainv = Put(@, dt, S1.ret)]
                   ELSE [S1 EXCEPT !.ATinv = Put(@, dt, S1.ret)]
         IN  FactorAll(S2, kind, keys \ {dt})

\* "Store Factorizations"
fieldsStore(S) ==
    IF ~Ok(S) \/ forward_only THEN S
    ELSE LET S1 == fieldsATinv(fieldsAinv(S))
         IN  IF Ok(S1) THEN FactorAll(S1, "A", Unique(S1.time_steps)) ELSE S1

\* self.Ainv[dt] / self.ATinv[dt]; the value is left in ret
Lookup(S, c, dt) ==
    IF ~Ok(S) THEN S
    ELSE IF ~c.has THEN Raise(S, "AttributeError")
    ELSE IF dt \notin DOMAIN c.d THEN Raise(S, "KeyError")
    ELSE [S EXCEPT !.ret = c.d[dt]]

\* a variant that refactors at every step
StepChangedAlways(ts, tInd, th) == tInd > 0

\* a variant that keeps the first factor for every step
StepChangedNever(ts, tInd, th) == FALSE

\* the comparison with the previous step length that decides a refactorization
StepChanged(ts, tInd, th) == tInd > 0 /\ Abs(ts[tInd + 1] - ts[tInd]) > th

\* a variant that returns without cleaning the factor
fieldsEndKeep(S, cur) == S

\* "clean factor and return"
fieldsEnd(S, cur) == IF forward_only THEN Clean(S, cur) ELSE S

RECURSIVE fieldsLoop(_, _, _)
\* "Forward solve at all time steps"; cur is the local Ainv
fieldsLoop(S, tInd, cur) ==
    IF ~Ok(S) THEN S
    ELSE IF tInd = Len(S.time_steps)
    THEN fieldsEnd(S, cur)
    ELSE LET drop == ~IsNone(cur) /\ StepChanged(S.time_steps, tInd, dt_threshold)
             S1 == IF drop /\ forward_only THEN Clean(S, cur) ELSE S
             c1 == IF drop THEN NoFac ELSE cur
             S2 == IF ~IsNone(c1) THEN [S1 EXCEPT !.ret = c1]
                   ELSE IF forward_only THEN Solver(S1, "A", tInd)
                   ELSE Lookup(S1, S1.Ainv, S1.time_steps[tInd + 1])
             S3 == Solve(S2, S2.ret, tInd)
             rhs == getRHSReads(fieldType, Len(S.time_steps), tInd + 1)
             S4 == Write(S3, tInd + 1, {tInd}, rhs)
         IN  fieldsLoop(S4, tInd + 1, S2.ret)

\* BaseTDEMSimulation.fields
fields(S, m) ==
    LET S1 == Note(S, "fields", -1)
        S2 == fieldsPair(SetModel(S1, m))
        S3 == Write(getInitialFields(S2), 0, {}, NoReads)
        S4 == fieldsStore(S3)
    IN  fieldsLoop(S4, 0, NoFac)

\* ------------------------------------------------------------ Jvec(m, v, f)
\* a variant that recomputes the fields whatever f is
FieldsAlways(S, m, fsup) == fields(S, m)

\* if f is None: f = self.fields(m); fsup: a fields object is supplied
FieldsIfNone(S, m, fsup) == IF fsup THEN S ELSE fields(S, m)

RECURSIVE SolveEach(_, _, _, _)
\* for i, src in enumerate(self.survey.source_list): one solve per source
SolveEach(S, f, k, i) ==
    IF ~Ok(S) \/ i > Len(survey) THEN S
    ELSE SolveEach(Solve(S, f, k), f, k, i + 1)

getInitialFieldsDeriv(S) == ForSources(Survey(S), 1)

\* df_dm_v[src, projField + "Deriv", tInd] = ... in Jvec and
\* df_duT_v[src, fieldType + "Deriv", tInd] = ... in Jtvec, for every source:
\* the time indices whose projected-field derivative is filled in
StoreDeriv(S, I) == IF ~Ok(S) THEN S ELSE [S EXCEPT !.df = @ \cup I]

RECURSIVE JvecLoop(_, _, _)
\* the time loop of Jvec; cur is the local Adiaginv
JvecLoop(S, tInd, cur) ==
    IF ~Ok(S) THEN S
    ELSE IF tInd = Len(S.time_steps)
    THEN IF forward_only THEN Clean(S, cur) ELSE S
    ELSE LET drop == ~IsNone(cur) /\ tInd > 0
                     /\ S.time_steps[tInd + 1] # S.time_steps[tInd]
             S1 == IF drop /\ forward_only THEN Clean(S, cur) ELSE S
             c1 == IF drop THEN NoFac ELSE cur
             S2 == IF ~IsNone(c1) THEN [S1 EXCEPT !.ret = c1]
                   ELSE IF forward_only THEN Solver(S1, "A", tInd)
                   ELSE Lookup(S1, S1.Ainv, S1.time_steps[tInd + 1])
             S3 == SolveEach(StoreDeriv(S2, {tInd}), S2.ret, tInd, 1)
         IN  JvecLoop(S3, tInd + 1, S2.ret)

\* BaseTDEMSimulation.Jvec; fsup: a fields object is supplied
Jvec(S, m, fsup) ==
    LET S1 == FieldsIfNone(S, m, fsup)
        S2 == SetModel(S1, m)
        S3 == getInitialFieldsDeriv(S2)
    IN  JvecLoop(S3, 0, NoFac)

\* ----------------------------------------------------------- Jtvec(m, v, f)
\* a variant that factors the transpose operators in every call
JtvecStoreAlways(S) ==
    IF ~Ok(S) \/ forward_only THEN S
    ELSE IF ~S.ATinv.has THEN Raise(S, "AttributeError")
    ELSE FactorAll(S, "AT", Unique(S.time_steps))

\* "Compute new factorizations"
JtvecStore(S) ==
    IF ~Ok(S) \/ forward_only THEN S
    ELSE IF ~S.ATinv.has THEN Raise(S, "AttributeError")
    ELSE IF \E k \in DOMAIN S.ATinv.d : IsNone(S.ATinv.d[k])
    THEN FactorAll(S, "AT", Unique(S.time_steps))
    ELSE S

\* the step whose adjoint state ATinv_df_duT_v[isrc, :] holds; -1: none yet
AdjointOf(S, isrc) ==
    LET I == {p \in 1..Len(S.bs) : S.bs[p].src = isrc}
    IN  IF I = {} THEN -1 ELSE S.bs[CHOOSE p \in I : \A q \in I : q <= p].k

\* a variant that never takes the sub-diagonal term
HasSubdiagNever(tInd, nT) == FALSE

\* tInd < self.nT - 1: Asubdiag is assembled and its transpose is applied
HasSubdiag(tInd, nT) == tInd < nT - 1

RECURSIVE BackSolveEach(_, _, _, _)
\* "solve against df_duT_v" for every source in turn; a record per solve: the
\* step, the source, the step of the sub-diagonal operator and of the adjoint
\* state it was applied to (-1: no such term), the factorization applied
BackSolveEach(S, f, k, isrc) ==
    IF ~Ok(S) \/ isrc > Len(survey) THEN S
    ELSE LET sub == HasSubdiag(k, Len(S.time_steps))
             S1 == Solve(S, f, k)
             r == [k |-> k, src |-> isrc,
                   sub |-> IF sub THEN k + 1 ELSE -1,
                   state |-> IF sub THEN AdjointOf(S, isrc) ELSE -1,
                   id |-> f.id, at |-> Len(S1.log)]
             S2 == IF Ok(S1) THEN [S1 EXCEPT !.bs = Append(@, r)] ELSE S1
         IN  BackSolveEach(S2, f, k, isrc + 1)

RECURSIVE JtvecLoop(_, _, _)
\* "Do the back-solve through time"; cur is the local AdiagTinv
JtvecLoop(S, tInd, cur) ==
    IF ~Ok(S) THEN S
    ELSE IF tInd < 0
    THEN IF ~IsNone(cur) /\ forward_only THEN Clean(S, cur) ELSE S
    ELSE LET drop == ~IsNone(cur) /\ tInd <= Len(S.time_steps)
                     /\ S.time_steps[tInd + 1] # S.time_steps[tInd + 2]
             S1 == IF drop /\ forward_only THEN Clean(S, cur) ELSE S
             c1 == IF drop THEN NoFac ELSE cur
             S2 == IF ~IsNone(c1) THEN [S1 EXCEPT !.ret = c1]
                   ELSE IF forward_only THEN Solver(S1, "AT", tInd)
                   ELSE Lookup(S1, S1.ATinv, S1.time_steps[tInd + 1])
             S3 == BackSolveEach(S2, S2.ret, tInd, 1)
         IN  JtvecLoop(S3, tInd - 1, S2.ret)

\* the time index of the operator the local Asubdiag is bound to after the
\* back-solve: the one of the last pass that assembled it; -1: never bound
LocalAsubdiag(S) ==
    LET I == {p \in 1..Len(S.bs) : S.bs[p].sub # -1}
    IN  IF I = {} THEN -1 ELSE S.bs[CHOOSE p \in I : \A q \in I : q <= p].sub

\* Simulation3DElectricField.Jtvec, "Treating initial condition when a
\* galvanic source is included": self.Adcinv is evaluated before Asubdiag,
\* which is bound only when the back-solve passed a tInd < nT - 1
RECURSIVE JtvecGalvanic(_, _)
JtvecGalvanic(S, i) ==
    IF ~Ok(S) \/ i > Len(survey) THEN S
    ELSE IF survey[i] # "galvanic" THEN JtvecGalvanic(S, i + 1)
    ELSE LET S1 == AdcinvProp(S)
             S2 == IF Ok(S1) /\ Len(S.time_steps) < 2
                   THEN Raise(S1, "UnboundLocalError") ELSE S1
             S3 == Solve(S2, S1.ret, -1)
             r == [src |-> i, sub |-> LocalAsubdiag(S), state |-> AdjointOf(S, i)]
             S4 == IF Ok(S3) THEN [S3 EXCEPT !.gal = Append(@, r)] ELSE S3
         IN  JtvecGalvanic(S4, i + 1)

\* BaseTDEMSimulation.Jtvec and its override in Simulation3DElectricField;
\* vIsData: v is a Data object, so Data(self.survey, v) is not evaluated and
\* self.survey is first read after "Compute new factorizations"
Jtvec(S, m, fsup, vIsData) ==
    LET S1 == FieldsIfNone(S, m, fsup)
        S2 == SetModel(S1, m)
        S3 == Survey(JtvecStore(IF vIsData THEN S2 ELSE Survey(S2)))
        S3b == StoreDeriv(S3, 0..Len(S3.time_steps))
        S4 == JtvecLoop(S3b, Len(S3b.time_steps) - 1, NoFac)
    IN  IF fieldType = "e" THEN JtvecGalvanic(S4, 1) ELSE S4

\* ------------------------------------------------------------------ numbers
\* exact fractions <<numerator, denominator>>, in lowest terms, denominator > 0
RECURSIVE GCD(_, _)
GCD(a, b) == IF b = 0 THEN a ELSE GCD(b, a % b)

Rat(n, d) ==
    LET g == GCD(Abs(n), Abs(d))
        s == IF d < 0 THEN -1 ELSE 1
    IN  <<(s * n) \div g, (s * d) \div g>>

RatInt(n) == <<n, 1>>

RatAdd(a, b) == Rat(a[1] * b[2] + b[1] * a[2], a[2] * b[2])

RatSub(a, b) == Rat(a[1] * b[2] - b[1] * a[2], a[2] * b[2])

RatMul(a, b) == Rat(a[1] * b[1], a[2] * b[2])

RatDiv(a, b) == Rat(a[1] * b[2], a[2] * b[1])

\* Zero(): the "no derivative" sentinel
Zero == RatInt(0)

\* ------------------------------------- the electric-field system on one edge
\* a mesh with a single edge and a single face: edge_curl = 1, MfMui = 1,
\* MeSigma = the model (one conductivity), MeSigmaDeriv(u, v) = u * v
MeSigma(m) == RatInt(m)

MeSigmaDeriv(u, v) == RatMul(u, v)

\* Simulation3DElectricField.getAdiag: C.T * (MfMui * C) + 1.0 / dt * MeSigma
getAdiag(m, dt) == RatAdd(RatInt(1), RatMul(Rat(1, dt), MeSigma(m)))

\* Simulation3DElectricField.getAdiagDeriv
getAdiagDeriv(dt, u, v) == RatMul(Rat(1, dt), MeSigmaDeriv(u, v))

\* Simulation3DElectricField.getAsubdiag: -1.0 / dt * MeSigma
getAsubdiag(m, dt) == RatMul(Rat(-1, dt), MeSigma(m))

\* Simulation3DElectricField.getAsubdiagDeriv
getAsubdiagDeriv(dt, u, v) == RatMul(Rat(-1, dt), MeSigmaDeriv(u, v))

\* getSourceTerm(tInd): a source that is on at all times, s_m = 1 and s_e = 0
getSourceTerm(tInd) == [s_m |-> RatInt(1), s_e |-> Zero]

\* Simulation3DElectricField.getRHS(tInd), tInd >= 1; ts[tInd] is
\* self.time_steps[tInd - 1]
getRHS(ts, tInd) ==
    RatAdd(RatMul(Rat(-1, ts[tInd]),
                  RatSub(getSourceTerm(tInd).s_e, getSourceTerm(tInd - 1).s_e)),
           getSourceTerm(tInd).s_m)

\* Simulation3DElectricField.getRHSDeriv
getRHSDeriv == Zero

\* the logged solve at time index k: the first one (first = TRUE) is the
\* forward solve of fields, the last one the solve of the sensitivity loop
SolveAt(log, k, first) ==
    LET I == {i \in 1..Len(log) : log[i].ev = "solve" /\ log[i].k = k}
    IN  log[IF first THEN Min(I) ELSE CHOOSE i \in I : \A j \in I : j <= i]

\* Ainv * x for the factorization that the logged solve e applied: the inverse
\* of the operator assembled with e's model and step length
FacApply(e, x) == RatDiv(x, getAdiag(e.m, e.dt))

RECURSIVE eSolution(_, _, _, _)
\* f[src, "eSolution", k] as fields(m) computes it; the initial field of an
\* inductive source is zero
eSolution(log, ts, m, k) ==
    IF k = 0 THEN Zero
    ELSE LET tInd == k - 1
             rhs == getRHS(ts, tInd + 1)
             Asubdiag == getAsubdiag(m, ts[tInd + 1])
         IN  FacApply(SolveAt(log, tInd, TRUE),
                      RatSub(rhs, RatMul(Asubdiag, eSolution(log, ts, m, tInd))))

\* f._eDeriv(tInd, src, du_dm_v, v): the field is the solution itself
eDeriv(du_dm_v, v) == du_dm_v

\* f._eDeriv(tInd, src, None, w, adjoint=True): the pair (field part, model part)
eDerivT(w) == <<w, Zero>>

RECURSIVE dun_dm_v(_, _, _, _, _)
\* Jvec: dun_dm_v on entry to pass k of the time loop (k = 0: the derivative
\* of the initial fields, zero for an inductive source)
dun_dm_v(log, ts, m, v, k) ==
    IF k = 0 THEN Zero
    ELSE LET tInd == k - 1
             dt == ts[tInd + 1]
             un_src == eSolution(log, ts, m, tInd + 1)
             dA_dm_v == getAdiagDeriv(dt, un_src, v)
             dRHS_dm_v == getRHSDeriv
             dAsubdiag_dm_v == getAsubdiagDeriv(dt, eSolution(log, ts, m, tInd), v)
             JRHS == RatSub(RatSub(dRHS_dm_v, dAsubdiag_dm_v), dA_dm_v)
         IN  FacApply(SolveAt(log, tInd, FALSE),
                      RatSub(JRHS, RatMul(getAsubdiag(m, dt),
                                          dun_dm_v(log, ts, m, v, tInd))))

\* Jvec: df_dm_v[src, "eDeriv", k]; the time loop writes the entries
\* tInd = 0 .. nT - 1, the entry nT keeps the zero of the new Fields_Derivs
df_dm_v(log, ts, m, v, k) ==
    IF k < Len(ts) THEN eDeriv(dun_dm_v(log, ts, m, v, k), v) ELSE Zero

\* rx.evalDeriv(src, mesh, time_mesh, f, x): P * x for a channel at the time
\* node rx
evalDeriv(rx, x) == x[rx]

\* rx.evalDeriv(..., adjoint=True): P.T * d over the nodes 0 .. nT
evalDerivT(rx, d, nT) == [k \in 0..nT |-> IF k = rx THEN d ELSE Zero]

\* the value Jvec(m, v) returns
JvecValue(log, ts, m, v, rx) ==
    evalDeriv(rx, [k \in 0..Len(ts) |-> df_dm_v(log, ts, m, v, k)])

\* Jtvec: df_duT_v[src, "eDeriv", k], k in range(nT + 1)
df_duT_v(ts, d, rx, k) == eDerivT(evalDerivT(rx, d, Len(ts))[k])[1]

RECURSIVE ATinv_df_duT_v(_, _, _, _, _, _)
\* Jtvec: ATinv_df_duT_v after pass tInd of the back-solve
ATinv_df_duT_v(log, ts, m, d, rx, tInd) ==
    IF tInd >= Len(ts) - 1
    THEN FacApply(SolveAt(log, tInd, FALSE), df_duT_v(ts, d, rx, tInd + 1))
    ELSE LET Asubdiag == getAsubdiag(m, ts[tInd + 2])
         IN  FacApply(SolveAt(log, tInd, FALSE),
                      RatSub(df_duT_v(ts, d, rx, tInd + 1),
                             RatMul(Asubdiag,
                                    ATinv_df_duT_v(log, ts, m, d, rx, tInd + 1))))

RECURSIVE JTvSum(_, _, _, _, _, _)
\* Jtvec: JTv after the passes nT - 1 .. tInd of the back-solve
JTvSum(log, ts, m, d, rx, tInd) ==
    IF tInd > Len(ts) - 1 THEN Zero
    ELSE LET y == ATinv_df_duT_v(log, ts, m, d, rx, tInd)
             dt == ts[tInd + 1]
             dAsubdiagT_dm_v == getAsubdiagDeriv(dt, eSolution(log, ts, m, tInd), y)
             dRHST_dm_v == getRHSDeriv
             dAT_dm_v == getAdiagDeriv(dt, eSolution(log, ts, m, tInd + 1), y)
         IN  RatAdd(JTvSum(log, ts, m, d, rx, tInd + 1),
                    RatAdd(RatSub(RatSub(Zero, dAT_dm_v), dAsubdiagT_dm_v),
                           dRHST_dm_v))

\* the value Jtvec(m, d) returns
JtvecValue(log, ts, m, d, rx) == JTvSum(log, ts, m, d, rx, 0)

\* no value / the values before any call
NoVal == [has |-> FALSE, m |-> 0, w |-> 0, val |-> Zero]

NoNum == [rx |-> 0, Jv |-> NoVal, JTv |-> NoVal]

\* the directions v (model space) and d (data space)
Directions == {1, 2}

\* ------------------------------------ the sub-diagonal of the four systems
\* the property operators on a mesh with one edge and one face: the model is the
\* conductivity of the only cell, rho = 1 / sigma, mu is fixed (muMap is refused)
MfRho(m) == Rat(1, m)

MfRhoDeriv(u, v) == RatMul(u, v)

MfMui == RatInt(1)

MeMu == RatInt(1)

\* getAsubdiag(tInd) of the formulation ft with _makeASymmetric = sym
AsubdiagOf(ft, sym, m, dt) ==
    IF ft = "b"
    THEN IF sym THEN RatMul(MfMui, Rat(-1, dt)) ELSE Rat(-1, dt)
    ELSE IF ft = "e" THEN RatMul(Rat(-1, dt), MeSigma(m))
    ELSE IF ft = "h" THEN RatMul(Rat(-1, dt), MeMu)
    ELSE IF sym THEN RatMul(Rat(-1, dt), MfRho(m)) ELSE Rat(-1, dt)

\* getAsubdiagDeriv(tInd, u, v) of the formulation ft
AsubdiagDerivOf(ft, sym, dt, u, v) ==
    IF ft = "b" THEN RatMul(Zero, RatInt(v))
    ELSE IF ft = "e" THEN RatMul(Rat(-1, dt), MeSigmaDeriv(RatInt(u), RatInt(v)))
    ELSE Zero

\* ------------------------------------------------------------ the receiver
\* the spatial meshes and the time meshes a caller passes to getP
RxMeshes == {1, 2}

RxTimeMeshes == {1, 2}

Orientations == {"x", "y", "z"}

\* no operator
NoP == [mesh |-> 0, time_mesh |-> 0, grid |-> "none"]

\* BaseRx.getSpatialP: interpolation from mesh to the receiver locations on the
\* grid f._GLoc(self.projField) + self.orientation
getSpatialP(r, mesh) == [mesh |-> mesh, grid |-> r.orientation]

\* BaseRx.getTimeP: interpolation from the time mesh to the receiver times
getTimeP(r, time_mesh) == [time_mesh |-> time_mesh]

\* sp.kron(Pt, Ps)
kron(Pt, Ps) == [mesh |-> Ps.mesh, time_mesh |-> Pt.time_mesh, grid |-> Ps.grid]

\* a variant that finds no pair in the cache
InPsNever(r, key) == FALSE

\* (mesh, time_mesh) in self._Ps
InPs(r, key) == key \in DOMAIN r.Ps

\* BaseRx.getP: the receiver after the call; ret is the operator returned,
\* built tells that the call constructed it
getP(r, mesh, time_mesh) ==
    LET key == <<mesh, time_mesh>>
    IN  IF InPs(r, key)
        THEN [r EXCEPT !.key = key, !.ret = r.Ps[key], !.built = FALSE]
        ELSE LET P == kron(getTimeP(r, time_mesh), getSpatialP(r, mesh))
                 Ps1 == IF r.storeProjections
                        THEN [k \in DOMAIN r.Ps \cup {key} |->
                                IF k = key THEN P ELSE r.Ps[k]]
                        ELSE r.Ps
             IN  [r EXCEPT !.key = key, !.ret = P, !.built = TRUE, !.Ps = Ps1]

\* a new receiver: nothing stored
NewRx(store, orientation) ==
    [storeProjections |-> store, orientation |-> orientation, Ps |-> <<>>,
     key |-> <<0, 0>>, ret |-> NoP, built |-> FALSE]

NoRcv == NewRx(TRUE, "z")

\* ------------------------------------------------------------ configuration
\* a variant that takes every value for a bool
IsBoolAny(value) == TRUE

\* isinstance(value, bool)
IsBool(value) == value.t = "bool"

\* min_val of the dt_threshold setter, 1e-16, the unit of the step lengths
min_val == 1

\* validate_float("dt_threshold", value, min_val=1e-16): the error it raises
validate_float(value) ==
    IF value.t \notin {"float", "int"} THEN "TypeError"
    ELSE IF value.v < min_val THEN "ValueError"
    ELSE "ok"

\* the forward_only setter: the error it raises
forward_only_setter(value) == IF IsBool(value) THEN "ok" ELSE "TypeError"

\* BaseTDEMSimulation.__init__: the first error of dt_threshold, forward_only
\* and the muMap test, in the order of the constructor
init_error(a) ==
    IF validate_float(a.dt) # "ok" THEN validate_float(a.dt)
    ELSE IF forward_only_setter(a.fo) # "ok" THEN forward_only_setter(a.fo)
    ELSE IF a.mu THEN "NotImplementedError"
    ELSE "ok"

\* ---------------------------------------------------------------- the calls
\* what a call leaves on the simulation: the objects the attributes still
\* reference, named by the slot that holds them
Slot(S, name, c) ==
    [has |-> c.has,
     d |-> [k \in DOMAIN c.d |->
              IF IsNone(c.d[k]) THEN NoFac
              ELSE [c.d[k] EXCEPT !.id = <<name, k>>, !.cleaned = IsDead(S, c.d[k])]]]

Commit(S0, op, m, fsup) == \E S \in {S0} :
    /\ model' = S.model
    /\ time_steps' = S.time_steps
    /\ Ainv' = Slot(S, "Ainv", S.Ainv)
    /\ ATinv' = Slot(S, "ATinv", S.ATinv)
    /\ Adcinv' = IF IsNone(S.Adcinv) THEN NoFac
                 ELSE [S.Adcinv EXCEPT !.id = <<"Adcinv", 0>>,
                                       !.cleaned = IsDead(S, S.Adcinv)]
    /\ last' = [op |-> op, m |-> m, fsup |-> fsup, err |-> S.err, log |-> S.log,
                arg |-> S.arg, f |-> S.f, bs |-> S.bs, df |-> S.df,
                gal |-> S.gal]
    /\ UNCHANGED <<fieldType, survey, forward_only, dt_threshold, rcv>>

InitSim ==
    /\ fieldType \in FieldTypes
    /\ survey \in Surveys
    /\ forward_only \in BOOLEAN
    /\ dt_threshold \in Thresholds
    /\ time_steps \in TimeMeshes
    /\ model = 0
    /\ Ainv = NoCache
    /\ ATinv = NoCache
    /\ Adcinv = NoFac
    /\ last = [op |-> "init", m |-> 0, fsup |-> FALSE, err |-> "ok", log |-> <<>>,
               arg |-> NoArg, f |-> <<>>, bs |-> <<>>, df |-> {}, gal |-> <<>>]
    /\ rcv = NoRcv

Init == InitSim /\ num = NoNum

\* simulation.fields(m); the solver fails at its fail-th call (0: never)
CallFields(Fails) == \E m \in Models, fail \in Fails :
    Commit(fields(Ctx(fail), m), "fields", m, FALSE)

\* simulation.Jvec(m, v, f)
CallJvec(Fails, Fsups) == \E m \in Models, fsup \in Fsups, fail \in Fails :
    Commit(Jvec(Ctx(fail), m, fsup), "Jvec", m, fsup)

\* simulation.Jtvec(m, v, f)
CallJtvec(Fails, Fsups, VData) ==
    \E m \in Models, fsup \in Fsups, fail \in Fails, vIsData \in VData :
        Commit(Jtvec(Ctx(fail), m, fsup, vIsData), "Jtvec", m, fsup)

\* reading the property simulation.Adcinv
GetAdcinv(Fails) == \E fail \in Fails :
    Commit(AdcinvProp(Ctx(fail)), "Adcinv", model, FALSE)

\* the value the Jvec call returns for the direction v
ReturnJv == \E v \in Directions :
    num' = [num EXCEPT !.Jv =
              IF last'.err # "ok" THEN NoVal
              ELSE [has |-> TRUE, m |-> last'.m, w |-> v,
                    val |-> JvecValue(last'.log, time_steps', last'.m, RatInt(v),
                                      num.rx)]]

\* the value the Jtvec call returns for the data vector d
ReturnJTv == \E d \in Directions :
    num' = [num EXCEPT !.JTv =
              IF last'.err # "ok" THEN NoVal
              ELSE [has |-> TRUE, m |-> last'.m, w |-> d,
                    val |-> JtvecValue(last'.log, time_steps', last'.m, RatInt(d),
                                       num.rx)]]

\* the cache lifecycle; the solver works, the values are left out
Next ==
    \/ CallFields({0}) /\ UNCHANGED num
    \/ CallJvec({0}, BOOLEAN) /\ UNCHANGED num
    \/ CallJtvec({0}, BOOLEAN, {FALSE}) /\ UNCHANGED num
    \/ GetAdcinv({0}) /\ UNCHANGED num

Spec == Init /\ [][Next]_vars

\* the solver may raise during fields
NextFail ==
    \/ CallFields(0..MaxFail) /\ UNCHANGED num
    \/ CallJvec({0}, BOOLEAN) /\ UNCHANGED num
    \/ CallJtvec({0}, BOOLEAN, {FALSE}) /\ UNCHANGED num
    \/ GetAdcinv({0}) /\ UNCHANGED num

InitFail == Init /\ ~forward_only /\ survey = <<"inductive">>

SpecFail == InitFail /\ [][NextFail]_vars

\* the values of Jvec(m, v) and Jtvec(m, d), f = None: the electric-field
\* formulation, one inductive source with one receiver channel at the time
\* node num.rx, steps that the rounding to dt_threshold leaves as they are
NextNum ==
    \/ CallFields({0}) /\ UNCHANGED num
    \/ CallJvec({0}, {FALSE}) /\ ReturnJv
    \/ CallJtvec({0}, {FALSE}, {FALSE}) /\ ReturnJTv

InitNum ==
    /\ InitSim
    /\ fieldType = "e"
    /\ survey = <<"inductive">>
    /\ dt_threshold = 1
    /\ \E rx \in 0..Len(time_steps) : num = [NoNum EXCEPT !.rx = rx]

SpecNum == InitNum /\ [][NextNum]_vars

\* ---------------------------------------------- construction and the setters
\* the values a caller hands to forward_only (None: type "none")
ForwardOnlyValues ==
    {Value("bool", 1), Value("bool", 0), Value("int", 5), Value("none", 0)}

\* the values a caller hands to dt_threshold
DtThresholdValues ==
    {Value("float", 0), Value("float", 1), Value("float", 2), Value("str", 0)}

\* a simulation object exists: a constructor call has returned
Exists == last.op # "none" /\ ~(last.op = "__init__" /\ last.err # "ok")

ConfigCall(op, a, e) ==
    [op |-> op, m |-> 0, fsup |-> FALSE, err |-> e, log |-> <<>>, arg |-> a,
     f |-> <<>>, bs |-> <<>>, df |-> {}, gal |-> <<>>]

\* Simulation3D...(mesh, survey, dt_threshold=dt, forward_only=fo, muMap=...)
Construct == \E fo \in ForwardOnlyValues, dt \in DtThresholdValues, mu \in BOOLEAN :
    LET a == [fo |-> fo, dt |-> dt, mu |-> mu]
        e == init_error(a)
    IN  /\ ~Exists
        /\ last' = ConfigCall("__init__", a, e)
        /\ forward_only' = IF e = "ok" THEN fo.v = 1 ELSE forward_only
        /\ dt_threshold' = IF e = "ok" THEN dt.v ELSE dt_threshold
        /\ UNCHANGED <<fieldType, survey, time_steps, model, Ainv, ATinv, Adcinv,
                       num, rcv>>

\* simulation.forward_only = value
SetForwardOnly == \E value \in ForwardOnlyValues :
    LET e == forward_only_setter(value)
    IN  /\ Exists
        /\ last' = ConfigCall("forward_only", [NoArg EXCEPT !.fo = value], e)
        /\ forward_only' = IF e = "ok" THEN value.v = 1 ELSE forward_only
        /\ UNCHANGED <<fieldType, survey, dt_threshold, time_steps, model,
                       Ainv, ATinv, Adcinv, num, rcv>>

\* simulation.dt_threshold = value
SetDtThreshold == \E value \in DtThresholdValues :
    LET e == validate_float(value)
    IN  /\ Exists
        /\ last' = ConfigCall("dt_threshold", [NoArg EXCEPT !.dt = value], e)
        /\ dt_threshold' = IF e = "ok" THEN value.v ELSE dt_threshold
        /\ UNCHANGED <<fieldType, survey, forward_only, time_steps, model,
                       Ainv, ATinv, Adcinv, num, rcv>>

NextConfig == Construct \/ SetForwardOnly \/ SetDtThreshold

\* before the constructor: no object, the attributes hold placeholders
InitConfig ==
    /\ fieldType \in FieldTypes
    /\ survey \in Surveys
    /\ forward_only = TRUE
    /\ dt_threshold = 1
    /\ time_steps = <<1>>
    /\ model = 0
    /\ Ainv = NoCache
    /\ ATinv = NoCache
    /\ Adcinv = NoFac
    /\ last = ConfigCall("none", NoArg, "ok")
    /\ num = NoNum
    /\ rcv = NoRcv

SpecConfig == InitConfig /\ [][NextConfig]_vars

\* ------------------------------------------------- attaching the survey
\* simulation.survey = value: None or a Survey
SetSurvey == \E value \in {NoSurvey, <<"inductive">>} :
    /\ survey' = value
    /\ last' = ConfigCall("survey", NoArg, "ok")
    /\ UNCHANGED <<fieldType, forward_only, dt_threshold, time_steps, model,
                   Ainv, ATinv, Adcinv, num, rcv>>

\* the calls on a simulation whose survey may be missing; v of Jtvec is an
\* array or a Data object
NextSurvey ==
    \/ SetSurvey
    \/ CallFields({0}) /\ UNCHANGED num
    \/ CallJvec({0}, BOOLEAN) /\ UNCHANGED num
    \/ CallJtvec({0}, BOOLEAN, BOOLEAN) /\ UNCHANGED num

InitSurvey ==
    /\ fieldType = "e"
    /\ survey \in {NoSurvey, <<"inductive">>}
    /\ forward_only \in BOOLEAN
    /\ dt_threshold = 1
    /\ time_steps \in TimeMeshes
    /\ model = 0
    /\ Ainv = NoCache
    /\ ATinv = NoCache
    /\ Adcinv = NoFac
    /\ last = ConfigCall("init", NoArg, "ok")
    /\ num = NoNum
    /\ rcv = NoRcv

SpecSurvey == InitSurvey /\ [][NextSurvey]_vars

\* ------------------------------------------------- drifting step lengths
\* the number of steps of a drifting time mesh
DriftN == 3

\* step lengths whose neighbours differ by one unit
DriftLengths == {1, 2, 3}

DriftMeshes == [1..DriftN -> DriftLengths]

NextDrift ==
    \/ CallFields({0}) /\ UNCHANGED num
    \/ CallJvec({0}, BOOLEAN) /\ UNCHANGED num
    \/ CallJtvec({0}, BOOLEAN, {FALSE}) /\ UNCHANGED num

InitDrift ==
    /\ fieldType = "e"
    /\ survey = <<"inductive">>
    /\ forward_only \in BOOLEAN
    /\ dt_threshold = 1
    /\ time_steps \in DriftMeshes
    /\ model = 0
    /\ Ainv = NoCache
    /\ ATinv = NoCache
    /\ Adcinv = NoFac
    /\ last = [op |-> "init", m |-> 0, fsup |-> FALSE, err |-> "ok", log |-> <<>>,
               arg |-> NoArg, f |-> <<>>, bs |-> <<>>, df |-> {}, gal |-> <<>>]
    /\ num = NoNum
    /\ rcv = NoRcv

SpecDrift == InitDrift /\ [][NextDrift]_vars

\* ------------------------------------------------- getJtJdiag_currents
\* the caller holds a fields object: the first call that sets the model is
\* fields(m), which succeeds
HasFields == model # 0

\* the largest n_hutchinson_samples and the largest number of model parameters
MaxSamples == 3

MaxP == 2

\* scipy.linalg.orth(u) for a random len(m) x n matrix u: an orthonormal basis
\* of its range, min(len(m), n) columns
orthColumns(nP, n) == Min({nP, n})

\* the calls of the sampling loop so far
Called(S, name) ==
    [S EXCEPT !.arg = [@ EXCEPT ![name] = @ + 1]]

\* F(x), with x evaluated once
Then(x, F(_)) == CHOOSE r \in {F(y) : y \in {x}} : TRUE

\* self.Jtvec(m, self.Jvec(m, ui / w, f), f)
JtvecOfJvec(S, m) ==
    Then(Jvec(Called(S, "Jvec"), m, TRUE),
         LAMBDA S1 : IF Ok(S1) THEN Jtvec(Called(S1, "Jtvec"), m, TRUE, FALSE)
                     ELSE S1)

RECURSIVE Hutchinson(_, _, _, _, _)
\* "for ii in range(0, n_hutchinson_samples)": ui = u[:, ii], then the two calls
Hutchinson(S, m, ii, n, cols) ==
    IF ~Ok(S) \/ ii = n THEN S
    ELSE IF ii >= cols THEN Raise(S, "IndexError")
    ELSE Then(JtvecOfJvec(S, m), LAMBDA S2 : Hutchinson(S2, m, ii + 1, n, cols))

\* Simulation3DElectricField.getJtJdiag_currents(m, W=None, f, n) for a model
\* of nP parameters, on a supported mesh with supported receivers
getJtJdiag_currents(S, m, fsup, n, nP) ==
    LET S0 == [S EXCEPT !.arg = [n |-> n, nP |-> nP, Jvec |-> 0, Jtvec |-> 0]]
    IN  Then(FieldsIfNone(Survey(S0), m, fsup),
             LAMBDA S1 : IF n = 0 THEN S1
                         ELSE Hutchinson(S1, m, 0, n, orthColumns(nP, n)))

\* simulation.getJtJdiag_currents(m, f=f, n_hutchinson_samples=n)
CallGetJtJdiag == \E m \in Models, fsup \in BOOLEAN, n \in 0..MaxSamples, nP \in 1..MaxP :
    /\ fsup => HasFields
    /\ Commit(getJtJdiag_currents(Ctx(0), m, fsup, n, nP), "getJtJdiag_currents",
              m, fsup)

NextJtJ ==
    \/ CallFields({0}) /\ UNCHANGED num
    \/ CallGetJtJdiag /\ UNCHANGED num

InitJtJ ==
    /\ fieldType = "e"
    /\ survey = <<"inductive">>
    /\ forward_only \in BOOLEAN
    /\ dt_threshold = 1
    /\ time_steps \in TimeMeshes
    /\ model = 0
    /\ Ainv = NoCache
    /\ ATinv = NoCache
    /\ Adcinv = NoFac
    /\ last = ConfigCall("init", NoArg, "ok")
    /\ num = NoNum
    /\ rcv = NoRcv

SpecJtJ == InitJtJ /\ [][NextJtJ]_vars

\* ------------------------------------------------- changes of forward_only
NextMode ==
    \/ SetForwardOnly
    \/ CallFields({0}) /\ UNCHANGED num
    \/ HasFields /\ CallJvec({0}, {TRUE}) /\ UNCHANGED num
    \/ HasFields /\ CallJtvec({0}, {TRUE}, {FALSE}) /\ UNCHANGED num

InitMode ==
    /\ fieldType = "e"
    /\ survey = <<"inductive">>
    /\ forward_only \in BOOLEAN
    /\ dt_threshold = 1
    /\ time_steps \in TimeMeshes
    /\ model = 0
    /\ Ainv = NoCache
    /\ ATinv = NoCache
    /\ Adcinv = NoFac
    /\ last = ConfigCall("init", NoArg, "ok")
    /\ num = NoNum
    /\ rcv = NoRcv

SpecMode == InitMode /\ [][NextMode]_vars

\* ------------------------------------------------- the operators' calls
\* simulation.getAsubdiag(tInd)
CallGetAsubdiag == \E sym \in BOOLEAN, tInd \in 0..(Len(time_steps) - 1) :
    /\ last' = ConfigCall("getAsubdiag",
                          [sym |-> sym, tInd |-> tInd, u |-> 0, v |-> 0,
                           val |-> AsubdiagOf(fieldType, sym, model,
                                              time_steps[tInd + 1])], "ok")
    /\ UNCHANGED <<fieldType, survey, forward_only, dt_threshold, time_steps,
                   model, Ainv, ATinv, Adcinv, num, rcv>>

\* simulation.getAsubdiagDeriv(tInd, u, v)
CallGetAsubdiagDeriv ==
    \E sym \in BOOLEAN, tInd \in 0..(Len(time_steps) - 1), u, v \in Directions :
        /\ last' = ConfigCall("getAsubdiagDeriv",
                              [sym |-> sym, tInd |-> tInd, u |-> u, v |-> v,
                               val |-> AsubdiagDerivOf(fieldType, sym,
                                          time_steps[tInd + 1], u, v)], "ok")
        /\ UNCHANGED <<fieldType, survey, forward_only, dt_threshold, time_steps,
                       model, Ainv, ATinv, Adcinv, num, rcv>>

\* simulation.model = m
CallSetModel == \E m \in Models :
    /\ model' = m
    /\ last' = ConfigCall("model", NoArg, "ok")
    /\ UNCHANGED <<fieldType, survey, forward_only, dt_threshold, time_steps,
                   Ainv, ATinv, Adcinv, num, rcv>>

NextOps == CallGetAsubdiag \/ CallGetAsubdiagDeriv \/ CallSetModel

InitOps ==
    /\ fieldType \in FieldTypes
    /\ survey = <<"inductive">>
    /\ forward_only = TRUE
    /\ dt_threshold = 1
    /\ time_steps \in TimeMeshes
    /\ model \in Models
    /\ Ainv = NoCache
    /\ ATinv = NoCache
    /\ Adcinv = NoFac
    /\ last = ConfigCall("init", NoArg, "ok")
    /\ num = NoNum
    /\ rcv = NoRcv

SpecOps == InitOps /\ [][NextOps]_vars

\* --------------------------------------------------- the receiver's calls
\* rx.getP(mesh, time_mesh, f)
CallGetP == \E mesh \in RxMeshes, time_mesh \in RxTimeMeshes :
    /\ rcv' = getP(rcv, mesh, time_mesh)
    /\ last' = ConfigCall("getP", NoArg, "ok")
    /\ UNCHANGED <<fieldType, survey, forward_only, dt_threshold, time_steps,
                   model, Ainv, ATinv, Adcinv, num>>

\* rx.storeProjections = value
SetStoreProjections == \E value \in BOOLEAN :
    /\ rcv' = [rcv EXCEPT !.storeProjections = value]
    /\ last' = ConfigCall("storeProjections", NoArg, "ok")
    /\ UNCHANGED <<fieldType, survey, forward_only, dt_threshold, time_steps,
                   model, Ainv, ATinv, Adcinv, num>>

\* rx.orientation = var
SetOrientation == \E var \in Orientations :
    /\ rcv' = [rcv EXCEPT !.orientation = var]
    /\ last' = ConfigCall("orientation", NoArg, "ok")
    /\ UNCHANGED <<fieldType, survey, forward_only, dt_threshold, time_steps,
                   model, Ainv, ATinv, Adcinv, num>>

NextRx == CallGetP \/ SetStoreProjections \/ SetOrientation

InitRx ==
    /\ fieldType = "e"
    /\ survey = <<"inductive">>
    /\ forward_only = TRUE
    /\ dt_threshold = 1
    /\ time_steps = <<1>>
    /\ model = 0
    /\ Ainv = NoCache
    /\ ATinv = NoCache
    /\ Adcinv = NoFac
    /\ last = ConfigCall("init", NoArg, "ok")
    /\ num = NoNum
    /\ \E store \in BOOLEAN, o \in Orientations : rcv = NewRx(store, o)

SpecRx == InitRx /\ [][NextRx]_vars

\* -------------------------------------------------------------- properties
\* the event log of the last call
Log == last.log

Idx == 1..Len(last.log)

\* the factorizations of the time-stepping operator and of its transpose
Stepping == {"A", "AT"}

AllKinds == {"A", "AT", "DC"}

IsEv(i, ev, Kinds) == Log[i].ev = ev /\ Log[i].kind \in Kinds

AllSame(ts) == \A i, j \in 1..Len(ts) : ts[i] = ts[j]

\* C1: adjointness.  For one model m (f = fields(m)), a direction v and a data
\* vector d, d * Jvec(m, v) equals v * Jtvec(m, d), wherever the receiver's time
\* channel lies, the final time node included.
C1_Adjoint ==
    (num.Jv.has /\ num.JTv.has /\ num.Jv.m = num.JTv.m)
        => RatMul(RatInt(num.JTv.w), num.Jv.val)
             = RatMul(RatInt(num.Jv.w), num.JTv.val)

\* C2: with forward_only = False, a successful fields(m) that directly follows
\* a successful fields(m) with the same model creates no factorization of the
\* time-stepping operator and cleans none.
C2_SecondFieldsReuses ==
    [][(/\ ~forward_only
        /\ last.op = "fields" /\ last.err = "ok"
        /\ last'.op = "fields" /\ last'.err = "ok"
        /\ last'.m = last.m)
         => \A i \in 1..Len(last'.log) :
               ~(/\ last'.log[i].ev \in {"new", "clean"}
                 /\ last'.log[i].kind \in Stepping)]_vars

\* C3: with forward_only = False, no solve of any call applies an Ainv or ATinv
\* factorization that was built under a model other than the current one.
C3_NoStaleSolve ==
    ~forward_only =>
        \A i \in Idx : IsEv(i, "solve", Stepping) => Log[i].m = Log[i].cm

TransientPolicy(Kinds) ==
    (forward_only /\ last.op \in {"fields", "Jvec", "Jtvec"} /\ last.err = "ok") =>
        /\ \A i \in Idx : IsEv(i, "new", Kinds) =>
              /\ Cardinality({j \in Idx : Log[j].ev = "clean" /\ Log[j].id = Log[i].id}) = 1
              /\ \A j \in Idx : (Log[j].ev = "clean" /\ Log[j].id = Log[i].id) => i < j
        /\ \A j \in Idx : IsEv(j, "solve", Kinds) => ~Log[j].dead
        /\ \A i, k \in Idx :
              (i < k /\ IsEv(i, "new", Kinds) /\ IsEv(k, "new", Kinds))
                  => \E j \in i..k : Log[j].ev = "clean" /\ Log[j].id = Log[i].id
        /\ ~Ainv.has /\ ~ATinv.has

\* C5 (as stated): with forward_only = True, every factorization that a
\* successful fields, Jvec or Jtvec call creates is cleaned exactly once before
\* the call returns, is never applied after its clean, at most one is live at
\* any moment, and no persistent Ainv / ATinv cache is created.
C5_EveryFactorization == TransientPolicy(AllKinds)

\* C5 (amended): the same, for every factorization of the time-stepping
\* operator or of its transpose; the DC factorization stays in _Adcinv.
C5_SteppingFactorizations == TransientPolicy(Stepping)

C5_Witness ==
    /\ forward_only /\ last.op = "Jtvec" /\ last.err = "ok"
    /\ Cardinality({i \in Idx : IsEv(i, "new", {"AT"})}) = 2
    /\ Cardinality({i \in Idx : IsEv(i, "clean", {"AT"})}) = 2

\* a cache in a well-defined state: no entry holds a factorization, or every
\* distinct step length holds a live one
WellDefined(c) ==
    \/ \A k \in DOMAIN c.d : IsNone(c.d[k])
    \/ /\ Unique(time_steps) \subseteq DOMAIN c.d
       /\ \A k \in DOMAIN c.d : ~IsNone(c.d[k]) /\ ~c.d[k].cleaned

\* C6: an error raised during fields() leaves Ainv and ATinv each fully
\* invalidated or fully valid, never with some step lengths factored and
\* others not.
C6_AllOrNothing ==
    (last.op = "fields" /\ last.err # "ok") => WellDefined(Ainv) /\ WellDefined(ATinv)

\* C7: no call changes the sequence of time-step lengths.
C7_TimeStepsUnchanged == [][time_steps' = time_steps]_vars

\* C8: the DC factorization is built only on an access that finds _Adcinv
\* empty, so at most once between two model changes, and later accesses return
\* that factorization; it is cleaned only by a model change, and every model
\* change leaves _Adcinv empty; the factor held is always the one of the
\* current model.  Neither depends on the time-step lengths.
C8_DcLifecycle ==
    /\ ~IsNone(Adcinv) =>
          Adcinv.kind = "DC" /\ Adcinv.m = model /\ ~Adcinv.cleaned
    /\ \A i \in Idx : IsEv(i, "new", {"DC"}) =>
          i > 1 /\ IsEv(i - 1, "Adcinv", {"none"})
    /\ \A i \in Idx : IsEv(i, "clean", {"DC"}) =>
          i > 1 /\ Log[i - 1].ev = "model" /\ ~Log[i].dead
    /\ \A i, k \in Idx :
          (i < k /\ IsEv(i, "new", {"DC"}) /\ IsEv(k, "new", {"DC"}))
              => \E j \in i..k : Log[j].ev = "model"
    /\ \A i, k \in Idx :
          (/\ i < k /\ IsEv(i, "new", {"DC"}) /\ Log[k].ev = "Adcinv"
           /\ \A j \in i..k : Log[j].ev # "model")
              => Log[k].id = Log[i].id /\ ~Log[k].dead
    /\ \A i, k \in Idx :
          (/\ i < k /\ Log[i].ev = "model" /\ Log[k].ev = "Adcinv"
           /\ \A j \in i..k : ~IsEv(j, "new", {"DC"}))
              => Log[k].kind = "none"
    /\ \A k \in Idx : IsEv(k, "Adcinv", {"DC"}) =>
          Log[k].m = Log[k].cm /\ ~Log[k].dead

C8_Witness ==
    \E i, j, k, l \in Idx :
        /\ i < j /\ j < k /\ k < l
        /\ Log[i].ev = "model" /\ IsEv(j, "clean", {"DC"})
        /\ IsEv(k, "new", {"DC"})
        /\ IsEv(l, "Adcinv", {"DC"}) /\ Log[l].id = Log[k].id

\* C9: an access of Adcinv on a formulation without getAdc raises
\* NotImplementedError, creates no factorization and leaves _Adcinv empty; on a
\* formulation with getAdc it yields a factorization, the cached one or a new
\* one that it caches.
C9_Capability ==
    \A i \in Idx : Log[i].ev = "Adcinv" =>
        IF fieldType = "b"
        THEN /\ last.err = "NotImplementedError"
             /\ i = Len(Log)
             /\ \A j \in Idx : ~IsEv(j, "new", {"DC"})
             /\ IsNone(Adcinv)
        ELSE /\ last.err # "NotImplementedError"
             /\ \/ Log[i].kind = "DC"
                \/ i < Len(Log) /\ IsEv(i + 1, "new", {"DC"})
             /\ ~IsNone(Adcinv)

C9_Witness ==
    /\ fieldType = "b" /\ last.op = "Adcinv"
    /\ last.err = "NotImplementedError"
    /\ Log[Len(Log)].ev = "Adcinv"

\* C10: a successful Jtvec on a formulation that defines getAdc accesses
\* Adcinv if the survey has a galvanic source, and does not if all its sources
\* are inductive.
C10_GalvanicRequestsDc ==
    (last.op = "Jtvec" /\ last.err = "ok" /\ HasGetAdc(fieldType)) =>
        (("galvanic" \in Range(survey)) <=> (\E i \in Idx : Log[i].ev = "Adcinv"))

\* C11: the constructor rejects a forward_only that is not a bool (TypeError),
\* a dt_threshold below 1e-16 and a muMap (NotImplementedError), and stores the
\* values it accepts; a setter of forward_only or dt_threshold that rejects its
\* value leaves the stored value as it was.
C11_ConfigRejected ==
    [][LET a == last'.arg
           dtOk == a.dt.t \in {"float", "int"} /\ a.dt.v >= min_val
           foOk == a.fo.t = "bool"
       IN  /\ last'.op = "__init__" =>
                 /\ (~dtOk \/ ~foOk \/ a.mu) => last'.err # "ok"
                 /\ (dtOk /\ ~foOk) => last'.err = "TypeError"
                 /\ (dtOk /\ foOk /\ a.mu) => last'.err = "NotImplementedError"
                 /\ (dtOk /\ foOk /\ ~a.mu) =>
                       /\ last'.err = "ok"
                       /\ forward_only' = (a.fo.v = 1)
                       /\ dt_threshold' = a.dt.v
           /\ last'.op = "forward_only" =>
                 IF foOk THEN last'.err = "ok" /\ forward_only' = (a.fo.v = 1)
                 ELSE last'.err = "TypeError" /\ forward_only' = forward_only
           /\ last'.op = "dt_threshold" =>
                 IF dtOk THEN last'.err = "ok" /\ dt_threshold' = a.dt.v
                 ELSE last'.err # "ok" /\ dt_threshold' = dt_threshold]_vars

C11_Witness ==
    /\ last.op = "forward_only" /\ last.arg.fo.t = "int"
    /\ last.err = "TypeError" /\ forward_only = FALSE /\ dt_threshold = 2

\* C12: with no survey attached, fields, Jvec and Jtvec raise AttributeError
\* before any factorization is created and before any solve.
C12_NoSurvey ==
    (survey = NoSurvey /\ last.op \in {"fields", "Jvec", "Jtvec"}) =>
        /\ last.err = "AttributeError"
        /\ \A i \in Idx : Log[i].ev \notin {"new", "solve"}

C14_CacheByFlag ==
    [][last'.op = "getP" =>
          LET key == rcv'.key
          IN  /\ rcv.storeProjections =>
                    IF key \in DOMAIN rcv.Ps
                    THEN ~rcv'.built /\ rcv'.ret = rcv.Ps[key] /\ rcv'.Ps = rcv.Ps
                    ELSE /\ rcv'.built
                         /\ DOMAIN rcv'.Ps = DOMAIN rcv.Ps \cup {key}
                         /\ rcv'.Ps[key] = rcv'.ret
              /\ ~rcv.storeProjections => rcv'.Ps = rcv.Ps /\ rcv'.built]_vars

\* C14 (amended): a getP for a stored pair returns the stored operator without
\* building one, whatever storeProjections is at that call; a getP for a pair
\* that is not stored builds the operator and stores it exactly when
\* storeProjections is enabled; only such a getP changes the cache.
C14_CacheByPair ==
    [][/\ last'.op = "getP" =>
             LET key == rcv'.key
             IN  IF key \in DOMAIN rcv.Ps
                 THEN ~rcv'.built /\ rcv'.ret = rcv.Ps[key] /\ rcv'.Ps = rcv.Ps
                 ELSE /\ rcv'.built
                      /\ rcv'.ret.mesh = key[1] /\ rcv'.ret.time_mesh = key[2]
                      /\ IF rcv.storeProjections
                         THEN /\ DOMAIN rcv'.Ps = DOMAIN rcv.Ps \cup {key}
                              /\ rcv'.Ps[key] = rcv'.ret
                              /\ \A k \in DOMAIN rcv.Ps : rcv'.Ps[k] = rcv.Ps[k]
                         ELSE rcv'.Ps = rcv.Ps
       /\ last'.op # "getP" => rcv'.Ps = rcv.Ps]_vars

C14_Witness ==
    /\ last.op = "getP" /\ ~rcv.storeProjections /\ ~rcv.built
    /\ rcv.key \in DOMAIN rcv.Ps /\ Cardinality(DOMAIN rcv.Ps) = 2

\* the positions of the solves of fields against the stepping operator
ASolves == {i \in Idx : IsEv(i, "solve", {"A"})}

\* the position of the solve of step k
ASolveOf(k) == CHOOSE i \in ASolves : Log[i].k = k

\* a successful fields call in forward_only mode
FieldsForwardOnly == last.op = "fields" /\ last.err = "ok" /\ forward_only

\* the reuse rule of fields in forward_only mode, Near(a, b, th) telling that two
\* consecutive step lengths count as the same: step 0 solves with a
\* factorization created just before from the operator of step 0; step k >= 1
\* solves with the factorization of step k-1 when the two step lengths are near,
\* and otherwise with a factorization created from the operator of step k right
\* after the factorization of step k-1 was cleaned
ReuseRule(Near(_, _, _)) ==
    FieldsForwardOnly =>
        /\ \A k \in 0..(Len(time_steps) - 1) :
                Cardinality({i \in ASolves : Log[i].k = k}) = 1
        /\ LET i == ASolveOf(0)
           IN  /\ i > 1 /\ IsEv(i - 1, "new", {"A"})
               /\ Log[i - 1].id = Log[i].id /\ Log[i - 1].k = 0
        /\ \A k \in 1..(Len(time_steps) - 1) :
              LET i == ASolveOf(k)
                  j == ASolveOf(k - 1)
              IN  IF Near(Log[i].cdt, Log[j].cdt, dt_threshold)
                  THEN i = j + 1 /\ Log[i].id = Log[j].id
                  ELSE /\ i = j + 3
                       /\ IsEv(j + 1, "clean", {"A"}) /\ Log[j + 1].id = Log[j].id
                       /\ IsEv(j + 2, "new", {"A"}) /\ Log[j + 2].id = Log[i].id
                       /\ Log[j + 2].k = k /\ Log[j + 2].dt = Log[i].cdt
                       /\ Log[i].id # Log[j].id

StrictlyBelow(a, b, th) == Abs(a - b) < th

NotAbove(a, b, th) == Abs(a - b) <= th

C16_WithinThreshold ==
    \A i \in Idx :
        (IsEv(i, "solve", Stepping) /\ Log[i].k >= 0) =>
            Abs(Log[i].dt - Log[i].cdt) <= dt_threshold

\* the step length of the operator whose factorization fields applied at step k:
\* the first solve of step k against the direct operator is the one of fields
FieldsDt(k) ==
    LET I == {i \in ASolves : Log[i].k = k}
    IN  Log[CHOOSE i \in I : \A j \in I : i <= j].dt

\* the solves of step k that a Jvec or a Jtvec call made after its fields(m)
DerivSolves(k) ==
    IF last.op = "Jvec"
    THEN LET I == {i \in ASolves : Log[i].k = k}
         IN  I \ {CHOOSE i \in I : \A j \in I : i <= j}
    ELSE {i \in Idx : IsEv(i, "solve", {"AT"}) /\ Log[i].k = k}

\* C17: for every time mesh and dt_threshold, in both modes, the factorization
\* Jvec or Jtvec applies at step k was built from the operator of the same step
\* length as the one fields applied at step k (seen in the calls that run
\* fields themselves).
C17_SamePolicy ==
    (last.op \in {"Jvec", "Jtvec"} /\ ~last.fsup /\ last.err = "ok") =>
        \A k \in 0..(Len(time_steps) - 1) :
            \A i \in DerivSolves(k) : Log[i].dt = FieldsDt(k)

\* the writes of the last call into its fields object
Writes == last.f

Solves(Kinds) == {i \in Idx : IsEv(i, "solve", Kinds)}

Galvanic == {i \in 1..Len(survey) : survey[i] = "galvanic"}

\* a successful fields call writes time index 0 from the initial fields, then
\* the indices 1..n in increasing order, each once and each from the index
\* before it only, right after the one solve of that step against the stepping
\* operator, whatever the number of sources
FieldsRecurrence ==
    LET n == Len(time_steps)
    IN  /\ Len(Writes) = n + 1
        /\ \A j \in 1..(n + 1) : Writes[j].idx = j - 1
        /\ Writes[1].from = {}
        /\ \A j \in 2..(n + 1) :
              /\ Writes[j].from = {j - 2}
              /\ Writes[j].at \in ASolves /\ Log[Writes[j].at].k = j - 2
              /\ Writes[j - 1].at < Writes[j].at
        /\ \A k \in 0..(n - 1) : Cardinality({i \in ASolves : Log[i].k = k}) = 1
        /\ Cardinality(ASolves) = n

\* C18 (as stated): a successful fields(m) follows the recurrence and has
\* performed exactly n solves when it returns.
C18_ExactlyNSolves ==
    (last.op = "fields" /\ last.err = "ok") =>
        FieldsRecurrence /\ Cardinality(Solves(AllKinds)) = Len(time_steps)

\* C18 (amended): a successful fields(m) follows the recurrence and has
\* performed exactly n solves against the stepping operator; the only other
\* solves are the steady-state ones of the initial fields, one for each galvanic
\* source, all before time index 0 is written.
C18_OneSolvePerStep ==
    (last.op = "fields" /\ last.err = "ok") =>
        /\ FieldsRecurrence
        /\ Solves(AllKinds) = ASolves \cup Solves({"DC"})
        /\ Cardinality(Solves({"DC"})) = Cardinality(Galvanic)
        /\ \A i \in Solves({"DC"}) : i <= Writes[1].at

C18_Witness ==
    /\ last.op = "fields" /\ last.err = "ok"
    /\ Len(time_steps) = 2 /\ Len(survey) = 2 /\ Galvanic # {}
    /\ Len(Writes) = 3 /\ Cardinality(ASolves) = 2 /\ Solves({"DC"}) # {}

\* C19: in a fields run of any of the four formulations, the right-hand side
\* of the step k -> k+1 reads the source terms at t_(k+1), no source term at a
\* time index greater than k+1 and no time-step length of an index greater than
\* k.
C19_NoLookahead ==
    \A j \in 2..Len(Writes) :
        LET k == Writes[j].idx - 1
        IN  /\ k + 1 \in Writes[j].rhs.src
            /\ \A i \in Writes[j].rhs.src : i <= k + 1
            /\ \A i \in Writes[j].rhs.dt : i <= k

\* the solves of the backward pass of the last call
BackSolves == last.bs

\* C20: the backward pass of Jtvec visits the steps n-1, n-2, ..., 0 in
\* strictly decreasing order and, within a step, every source in turn before
\* the next lower step starts; the solve at step n-1 has no sub-diagonal term
\* and the solve at a step k < n-1 applies the transpose of Asubdiag(k+1) to the
\* adjoint state of step k+1 of the same source; all sources of a step are
\* solved against one factorization of the transpose operator, with no
\* factorization created or cleaned between them.
C20_BackwardPass ==
    last.op = "Jtvec" =>
        LET n == Len(time_steps)
            ns == Len(survey)
        IN  /\ Len(BackSolves) <= n * ns
            /\ last.err = "ok" => Len(BackSolves) = n * ns
            /\ \A p \in 1..Len(BackSolves) :
                  LET r == BackSolves[p]
                  IN  /\ r.k = n - 1 - ((p - 1) \div ns)
                      /\ r.src = ((p - 1) % ns) + 1
                      /\ IF r.k = n - 1
                         THEN r.sub = -1 /\ r.state = -1
                         ELSE r.sub = r.k + 1 /\ r.state = r.k + 1
                      /\ IsEv(r.at, "solve", {"AT"})
                      /\ Log[r.at].k = r.k /\ Log[r.at].id = r.id
                      /\ r.src > 1 =>
                            /\ BackSolves[p - 1].id = r.id
                            /\ BackSolves[p - 1].at + 1 = r.at

C20_Witness ==
    /\ last.op = "Jtvec" /\ last.err = "ok"
    /\ Len(time_steps) = 2 /\ time_steps[1] # time_steps[2] /\ Len(survey) = 2
    /\ Len(BackSolves) = 4 /\ BackSolves[4].sub = 1 /\ BackSolves[4].state = 1

\* C21 (as stated): with forward_only = True the DC factorization is not
\* retained after the operation that used it; with forward_only = False it is
\* retained until the model changes.
C21_DcSplit ==
    [][/\ forward_only => IsNone(Adcinv')
       /\ (~forward_only /\ ~IsNone(Adcinv) /\ model' = model) =>
             Adcinv' = Adcinv /\ ~Adcinv'.cleaned]_vars

\* C21 (amended): in both modes the DC factorization is retained, live, until
\* the model changes; a model change cleans it, and what _Adcinv holds afterwards
\* was built for the new model.
C21_DcUntilModelChange ==
    [][/\ (~IsNone(Adcinv) /\ model' = model) =>
             Adcinv' = Adcinv /\ ~Adcinv'.cleaned
       /\ (~IsNone(Adcinv) /\ model' # model) =>
             /\ \E i \in 1..Len(last'.log) :
                   /\ last'.log[i].ev = "clean" /\ last'.log[i].kind = "DC"
                   /\ last'.log[i].m = model
             /\ IsNone(Adcinv') \/ (Adcinv'.m = model' /\ ~Adcinv'.cleaned)]_vars

C21_Witness ==
    /\ forward_only /\ ~IsNone(Adcinv) /\ ~Adcinv.cleaned /\ Adcinv.m = model
    /\ last.op = "fields" /\ last.err = "ok"
    /\ \A i \in Idx : ~IsEv(i, "new", {"DC"})
    /\ \E i \in Idx : IsEv(i, "solve", {"DC"})

\* the operator getAsubdiag returns depends on the model
AsubdiagDependsOnModel(ft, sym) ==
    \E dt \in StepLengths, m1, m2 \in Models :
        AsubdiagOf(ft, sym, m1, dt) # AsubdiagOf(ft, sym, m2, dt)

\* C22: for each formulation and each symmetrization setting, getAsubdiagDeriv
\* applied to non-zero u and v gives zero exactly when the operator getAsubdiag
\* returns does not depend on the model.
C22_SubdiagDerivative ==
    last.op = "getAsubdiagDeriv" =>
        ((last.arg.val = Zero) <=> ~AsubdiagDependsOnModel(fieldType, last.arg.sym))

\* C23: the time indices at which a successful Jvec has stored a
\* projected-field derivative (before it applies the receivers' projection) and
\* the time indices a successful Jtvec back-projects are the same set, every
\* time node 0..n: the final index n is among those Jvec stored.
C23_SameTimeIndices ==
    (last.op \in {"Jvec", "Jtvec"} /\ last.err = "ok") =>
        last.df = 0..Len(time_steps)

\* C24: in the electric-field Jtvec with a galvanic source, once the back-solve
\* through time has completed, the initial-condition correction completes for
\* every time mesh with n >= 1 steps, and for every galvanic source it applies
\* the sub-diagonal operator of time index 0 to the adjoint state of step 0.
C24_GalvanicSubdiag ==
    (/\ last.op = "Jtvec" /\ fieldType = "e" /\ Galvanic # {}
     /\ Len(BackSolves) = Len(time_steps) * Len(survey))
        => /\ last.err = "ok"
           /\ Len(last.gal) = Cardinality(Galvanic)
           /\ \A p \in 1..Len(last.gal) :
                 last.gal[p].sub = 0 /\ last.gal[p].state = 0

\* C25: with forward_only = False, a Jvec or Jtvec call that is handed a fields
\* object finds the persistent cache and, at every step k, solves with a
\* factorization that is live and was built for dt_k: the call raises no error
\* for a missing cache, a missing key or an empty entry.
C25_CacheLive ==
    (last.op \in {"Jvec", "Jtvec"} /\ last.fsup /\ ~forward_only) =>
        /\ last.err = "ok"
        /\ \A k \in 0..(Len(time_steps) - 1) :
              \E i \in Idx : IsEv(i, "solve", Stepping) /\ Log[i].k = k
        /\ \A i \in Idx : IsEv(i, "solve", Stepping) =>
              ~Log[i].dead /\ Log[i].dt = Log[i].cdt

\* C26: with forward_only = False, a fields() call that follows a fields() call
\* in which the solver failed raises nothing but a failure of the solver
\* itself: with a working solver it completes.
C26_FieldsRecovers ==
    [][(/\ ~forward_only
        /\ last.op = "fields" /\ last.err = "SolverError"
        /\ last'.op = "fields")
         => last'.err \in {"ok", "SolverError"}]_vars

\* the factorizations of the transpose operator a call created
NewAT(log) == {i \in 1..Len(log) : log[i].ev = "new" /\ log[i].kind = "AT"}

\* the transpose cache holds a factorization for every step length
ATinvBuilt == ATinv.has /\ \A k \in DOMAIN ATinv.d : ~IsNone(ATinv.d[k])

C28_StepsPositive == \A i \in 1..Len(time_steps) : time_steps[i] > 0

\* C29: the operator getP returns is the projection for the pair it was asked
\* for and for the receiver's current orientation, also when a projection was
\* stored before the orientation was set to another component.
C29_CurrentOrientation ==
    last.op = "getP" =>
        /\ rcv.ret.mesh = rcv.key[1] /\ rcv.ret.time_mesh = rcv.key[2]
        /\ rcv.ret.grid = rcv.orientation

\* C30: getJtJdiag_currents completes for every n_hutchinson_samples >= 0 and
\* every model size; it makes exactly n_hutchinson_samples Jvec calls and as
\* many Jtvec calls (none with 0 samples), and runs fields(m) once if no fields
\* object was supplied and never otherwise.
C30_SamplesAndCalls ==
    last.op = "getJtJdiag_currents" =>
        /\ last.err = "ok"
        /\ last.arg.Jvec = last.arg.n /\ last.arg.Jtvec = last.arg.n
        /\ Cardinality({i \in Idx : Log[i].ev = "fields"}) = IF last.fsup THEN 0 ELSE 1

====
